---- MODULE Spec2Model ----
(***************************************************************************)
(* Model of src/denovos/annotate_vcf_with_denovo_lls.py: the merge of a    *)
(* HipSTR genotype VCF (the primary stream, "gt") with a DenovoFinder      *)
(* log-likelihood VCF (the secondary stream, "ll").                        *)
(*                                                                         *)
(* Representation.                                                         *)
(*  - A record is [CHROM, POS, ID, REF, ALT, FORMAT, samples].  FORMAT is  *)
(*    the colon-separated FORMAT column, kept as the sequence of its       *)
(*    names (what FORMAT.split(':') yields and ":".join consumes).         *)
(*  - A call (one sample of one record) is [sample, fields, data]: the     *)
(*    sample name, the names of its calldata tuple and the values in the   *)
(*    same order.                                                          *)
(*  - An allele is its VCF text; "." is the missing allele, which PyVCF    *)
(*    parses to None and str() renders as "None".                          *)
(*  - Python's None for a record is the empty sequence, a record r is      *)
(*    <<r>>.                                                               *)
(*  - exit(msg) ends the run in pc = "exit" with err = msg; an exception   *)
(*    nobody catches ends it in pc = "crash" with err = its class name.    *)
(***************************************************************************)
EXTENDS Integers, Sequences, FiniteSets, TLC

VARIABLES
    gt_stream,          \* records of the --vcf file, in file order
    ll_stream,          \* records of the --denovo-ll-vcf file, in file order
    gt_samples,         \* gt_vcf_reader.samples
    ll_samples,         \* ll_vcf_reader.samples
    gt_header_formats,  \* FORMAT declarations of the --vcf header, as read
    ll_formats,         \* ll_vcf_reader.formats
    keep_LLs,           \* args.keep_LLs
    gt_formats,         \* gt_vcf_reader.formats (extended in place, l.45)
    fmt_todo,           \* keys of ll_formats the loop of l.42 has yet to visit
    header,             \* <<>> until vcf.Writer has written the header
    gt_idx,             \* records read from gt_vcf_reader
    ll_idx,             \* records read from ll_vcf_reader
    gt_record,          \* loop variable of l.51
    ll_record,          \* the buffered DenovoFinder record (None = <<>>)
    out,                \* records handed to vcf_writer.write_record
    pc,                 \* position in main()
    err                 \* exit message or exception class, "" if none

vars == <<gt_stream, ll_stream, gt_samples, ll_samples, gt_header_formats,
          ll_formats, keep_LLs, gt_formats, fmt_todo, header, gt_idx, ll_idx,
          gt_record, ll_record, out, pc, err>>

inputs == <<gt_stream, ll_stream, gt_samples, ll_samples, gt_header_formats,
            ll_formats, keep_LLs>>

----------------------------------------------------------------------------
(* Bounds of the input enumeration *)

MaxGt == 2      \* longest primary stream
MaxLl == 2      \* longest secondary stream
MaxAlt == 2     \* longest alternate-allele list
MaxFields == 2  \* longest FORMAT column of an input record

----------------------------------------------------------------------------
(* Helpers *)

None == <<>>

Range(s) == {s[i] : i \in 1..Len(s)}

SeqsUpTo(S, n) == UNION {[1..k -> S] : k \in 0..n}

DistinctSeqs(S, n) ==
    {s \in UNION {[1..k -> S] : k \in 1..n} :
        \A i, j \in 1..Len(s) : i # j => s[i] # s[j]}

HasDuplicates(s) == \E i, j \in 1..Len(s) : i # j /\ s[i] = s[j]

IndexOf(x, s) == CHOOSE i \in 1..Len(s) : s[i] = x

\* str(): None -> "None", any other allele or string -> its text
Str(x) == IF x = "." THEN "None" ELSE x

\* vcf.model._Call.__getitem__: getattr(self.data, key)
CallGet(call, key) == call.data[IndexOf(key, call.fields)]

\* vcf.model._Record.genotype(name)
Genotype(rec, name) ==
    rec.samples[CHOOSE j \in 1..Len(rec.samples) : rec.samples[j].sample = name]

Missing == <<".">>

Excluded == {"GL", "PL", "PHASEDGL"}

MsgNoSamples  == "ERROR: No samples are shared between the raw VCF and the denovo VCF"
MsgCollision  == "ERROR: FORMAT field present in both VCFs"
MsgChrom      == "ERROR: Record chromosomes don't match"
MsgPos        == "ERROR: Record positions don't match"
MsgId         == "ERROR: Record IDs don't match"
MsgRef        == "ERROR: Record REF alleles don't match"
MsgAlt        == "ERROR: Record alternate alleles don't match"
MsgDuplicate  == "ERROR: Duplicate FORMAT fields in the two VCFs"

MismatchMsgs == {MsgChrom, MsgPos, MsgId, MsgRef, MsgAlt}

----------------------------------------------------------------------------
(* records_match, l.10-18: "ok" when it returns, else the exit message *)

AltItemsDiffer(a, b) ==
    \E i \in 1..Len(a.ALT) : Str(a.ALT[i]) # Str(b.ALT[i])

AltItemsDifferFirstOnly(a, b) ==
    Len(a.ALT) >= 1 /\ Str(a.ALT[1]) # Str(b.ALT[1])

records_match_no_pos(rec_a, rec_b) ==
    IF rec_a.CHROM # rec_b.CHROM THEN MsgChrom
    ELSE IF rec_a.ID # rec_b.ID THEN MsgId
    ELSE IF Str(rec_a.REF) # Str(rec_b.REF) THEN MsgRef
    ELSE IF Len(rec_a.ALT) # Len(rec_b.ALT) THEN MsgAlt
    ELSE IF AltItemsDiffer(rec_a, rec_b) THEN MsgAlt
    ELSE "ok"

records_match_first_alt(rec_a, rec_b) ==
    IF rec_a.CHROM # rec_b.CHROM THEN MsgChrom
    ELSE IF rec_a.POS # rec_b.POS THEN MsgPos
    ELSE IF rec_a.ID # rec_b.ID THEN MsgId
    ELSE IF Str(rec_a.REF) # Str(rec_b.REF) THEN MsgRef
    ELSE IF Len(rec_a.ALT) # Len(rec_b.ALT) THEN MsgAlt
    ELSE IF AltItemsDifferFirstOnly(rec_a, rec_b) THEN MsgAlt
    ELSE "ok"

records_match(rec_a, rec_b) ==
    IF rec_a.CHROM # rec_b.CHROM THEN MsgChrom
    ELSE IF rec_a.POS # rec_b.POS THEN MsgPos
    ELSE IF rec_a.ID # rec_b.ID THEN MsgId
    ELSE IF Str(rec_a.REF) # Str(rec_b.REF) THEN MsgRef
    ELSE IF Len(rec_a.ALT) # Len(rec_b.ALT) THEN MsgAlt
    ELSE IF AltItemsDiffer(rec_a, rec_b) THEN MsgAlt
    ELSE "ok"

----------------------------------------------------------------------------
(* The input files *)

Chroms    == {"chr1", "chr2"}
Positions == {100, 150}
Ids       == {"rs1", "rs2"}
Refs      == {"A", "C"}
Alleles   == {"T", "G"}

AltLists == {<<".">>} \cup (UNION {[1..k -> Alleles] : k \in 1..MaxAlt})

Key(c, p, i, r, a) == [CHROM |-> c, POS |-> p, ID |-> i, REF |-> r, ALT |-> a]

\* every variant key
KeyPool == {Key(c, p, i, r, a) : c \in Chroms, p \in Positions, i \in Ids,
                                 r \in Refs, a \in AltLists}

\* one variant per coordinate
CoordPool == {Key(c, p, "rs1", "A", <<"T">>) : c \in Chroms, p \in Positions}

\* the value of field f of sample s in the record of file src at key k
Value(src, k, s, f) == <<src, k.POS, s, f>>

MkRecord(src, k, format, samples) ==
    [CHROM |-> k.CHROM, POS |-> k.POS, ID |-> k.ID, REF |-> k.REF, ALT |-> k.ALT,
     FORMAT |-> format,
     samples |-> [j \in 1..Len(samples) |->
                    [sample |-> samples[j],
                     fields |-> format,
                     data   |-> [i \in 1..Len(format) |->
                                   Value(src, k, samples[j], format[i])]]]]

MkStream(src, keys, format, samples) ==
    [n \in 1..Len(keys) |-> MkRecord(src, keys[n], format, samples)]

\* a header's FORMAT registry: name -> its declaration
Registry(src, names) == [f \in names |-> <<src, f>>]

SampleLists == {<<"s1">>, <<"s2">>, <<"s1", "s2">>}

GtFieldNames == {"GT", "GL", "PL"}
LlFieldNames == {"DNM_LL", "PHASEDGL", "GL", "GT"}

\* the names a header declares: those its records use, but for at most one
Declared(format) ==
    {Range(format)} \cup {Range(format) \ {f} : f \in Range(format)}

(* Slices of the input space.  Every slice is a set of well-formed input   *)
(* file pairs; they differ in which dimension is enumerated in full.       *)
InputsOk(gk, lk, gf, lf, gh, lh, gs, ls, keep) ==
    /\ gt_stream = MkStream("gt", gk, gf, gs)
    /\ ll_stream = MkStream("ll", lk, lf, ls)
    /\ gt_samples = gs
    /\ ll_samples = ls
    /\ gt_header_formats = Registry("gt", gh)
    /\ ll_formats = Registry("ll", lh)
    /\ keep_LLs = keep

\* coordinates of both streams enumerated, in any order
InitCoords ==
    \E gk \in SeqsUpTo(CoordPool, MaxGt), lk \in SeqsUpTo(CoordPool, MaxLl) :
        InputsOk(gk, lk, <<"GT", "GL">>, <<"DNM_LL">>, {"GT", "GL"}, {"DNM_LL"},
                 <<"s1", "s2">>, <<"s1">>, FALSE)

\* one record each, every variant key on the primary side
InitKeys ==
    \E k \in KeyPool, l \in CoordPool :
        InputsOk(<<k>>, <<l>>, <<"GT", "GL">>, <<"DNM_LL">>, {"GT", "GL"},
                 {"DNM_LL"}, <<"s1", "s2">>, <<"s1">>, FALSE)

\* FORMAT columns, header declarations and the --keep-gls option enumerated
InitFields ==
    \E gf \in DistinctSeqs(GtFieldNames, MaxFields),
       lf \in DistinctSeqs(LlFieldNames, MaxFields), keep \in BOOLEAN :
        \E gh \in Declared(gf), lh \in Declared(lf) :
            InputsOk(<<Key("chr1", 100, "rs1", "A", <<"T">>)>>,
                     <<Key("chr1", 100, "rs1", "A", <<"T">>)>>,
                     gf, lf, gh, lh, <<"s1", "s2">>, <<"s1">>, keep)

\* sample lists enumerated, with and without a FORMAT name in both headers
InitSamples ==
    \E gs \in SampleLists, ls \in SampleLists, keep \in BOOLEAN,
       lf \in {<<"DNM_LL", "PHASEDGL">>, <<"DNM_LL", "GT">>} :
        InputsOk(<<Key("chr1", 100, "rs1", "A", <<"T">>)>>,
                 <<Key("chr1", 100, "rs1", "A", <<"T">>)>>,
                 <<"GT", "PL">>, lf, {"GT", "PL"}, Range(lf), gs, ls, keep)

\* main() after the readers are constructed, l.21-34
Init ==
    /\ InitCoords \/ InitKeys \/ InitFields \/ InitSamples
    /\ gt_formats = gt_header_formats
    /\ fmt_todo = DOMAIN ll_formats
    /\ header = None
    /\ gt_idx = 0
    /\ ll_idx = 0
    /\ gt_record = None
    /\ ll_record = None
    /\ out = <<>>
    /\ pc = "samples"
    /\ err = ""

----------------------------------------------------------------------------
(* main(), l.36-116 *)

all_ll_samples == Range(ll_samples)

ExitContinues(msg) == pc' = "for" /\ err' = msg

\* exit(msg): the process ends at once
Exit(msg) == pc' = "exit" /\ err' = msg

Crash(exc) == pc' = "crash" /\ err' = exc

SharedSamplesUnion == all_ll_samples \cup Range(gt_samples)

\* l.37: all_ll_samples.intersection(set(gt_vcf_reader.samples))
SharedSamples == all_ll_samples \cap Range(gt_samples)

\* l.36-38
CheckSamples ==
    /\ pc = "samples"
    /\ IF Cardinality(SharedSamples) = 0
       THEN Exit(MsgNoSamples)
       ELSE pc' = "formats" /\ err' = err
    /\ UNCHANGED <<inputs, gt_formats, fmt_todo, header, gt_idx, ll_idx,
                   gt_record, ll_record, out>>

\* l.43: the membership test that guards the registration
CollidesNever(k) == FALSE

Collides(k) == k \in DOMAIN gt_formats

\* l.42-45, one iteration of the loop over ll_vcf_reader.formats.items(); the
\* items come in the order of the header lines, which the registry does not
\* record, so any order is allowed
UnifyFormatAt(at) ==
    /\ pc = at
    /\ \E k \in fmt_todo :
        IF Collides(k)
        THEN /\ Exit(MsgCollision)
             /\ UNCHANGED <<gt_formats, fmt_todo>>
        ELSE /\ gt_formats' = (k :> ll_formats[k]) @@ gt_formats
             /\ fmt_todo' = fmt_todo \ {k}
             /\ UNCHANGED <<pc, err>>
    /\ UNCHANGED <<inputs, header, gt_idx, ll_idx, gt_record, ll_record, out>>

UnifyFormat == UnifyFormatAt("formats")

\* l.48: vcf.Writer(sys.stdout, gt_vcf_reader) writes the header
OpenWriter ==
    /\ pc = "formats"
    /\ fmt_todo = {}
    /\ header' = <<gt_formats>>
    /\ pc' = "for"
    /\ UNCHANGED <<inputs, gt_formats, fmt_todo, gt_idx, ll_idx, gt_record,
                   ll_record, out, err>>

\* l.51: the for statement takes the next record or ends the loop
NextGtRecord ==
    /\ pc = "for"
    /\ IF gt_idx < Len(gt_stream)
       THEN /\ gt_record' = <<gt_stream[gt_idx + 1]>>
            /\ gt_idx' = gt_idx + 1
            /\ pc' = "pull"
       ELSE /\ pc' = "done"
            /\ UNCHANGED <<gt_record, gt_idx>>
    /\ UNCHANGED <<inputs, gt_formats, fmt_todo, header, ll_idx, ll_record,
                   out, err>>

\* l.52-53: ll_vcf_reader.next() raises StopIteration at the end of the file
PullLlRecord ==
    /\ pc = "pull"
    /\ IF ll_record = None
       THEN IF ll_idx < Len(ll_stream)
            THEN /\ ll_record' = <<ll_stream[ll_idx + 1]>>
                 /\ ll_idx' = ll_idx + 1
                 /\ pc' = "gate"
                 /\ err' = err
            ELSE /\ Crash("StopIteration")
                 /\ UNCHANGED <<ll_record, ll_idx>>
       ELSE /\ pc' = "gate"
            /\ UNCHANGED <<ll_record, ll_idx, err>>
    /\ UNCHANGED <<inputs, gt_formats, fmt_todo, header, gt_idx, gt_record, out>>

SkipsChromOnly(g, l) == g.CHROM # l.CHROM

SkipsPosOnly(g, l) == g.POS < l.POS

SkipsUnlessEqualPos(g, l) == g.CHROM # l.CHROM \/ g.POS # l.POS

\* l.56: the condition of the continue
Skips(g, l) == g.CHROM # l.CHROM \/ g.POS < l.POS

\* l.56-57
PositionGate ==
    /\ pc = "gate"
    /\ pc' = IF Skips(gt_record[1], ll_record[1]) THEN "for" ELSE "match"
    /\ UNCHANGED <<inputs, gt_formats, fmt_todo, header, gt_idx, ll_idx,
                   gt_record, ll_record, out, err>>

\* l.60
VerifyMatch ==
    /\ pc = "match"
    /\ LET m == records_match(gt_record[1], ll_record[1])
       IN  IF m = "ok" THEN pc' = "dup" /\ err' = err ELSE Exit(m)
    /\ UNCHANGED <<inputs, gt_formats, fmt_todo, header, gt_idx, ll_idx,
                   gt_record, ll_record, out>>

\* l.66: the test of the duplicate check
DuplicateTest(gt_fields, denovo_fields) ==
    Len(gt_fields \o denovo_fields) # Len(gt_fields) + Len(denovo_fields)

\* l.62-67
CheckDuplicateFields ==
    /\ pc = "dup"
    /\ IF DuplicateTest(gt_record[1].FORMAT, ll_record[1].FORMAT)
       THEN Exit(MsgDuplicate)
       ELSE pc' = "merge" /\ err' = err
    /\ UNCHANGED <<inputs, gt_formats, fmt_todo, header, gt_idx, ll_idx,
                   gt_record, ll_record, out>>

MergedFieldsKeepAll(gt_fields, denovo_fields) == gt_fields \o denovo_fields

MergedFieldsLlFirst(gt_fields, denovo_fields) ==
    IF keep_LLs
    THEN denovo_fields \o gt_fields
    ELSE SelectSeq(denovo_fields \o gt_fields, LAMBDA x : x \notin Excluded)

\* l.69-72
MergedFields(gt_fields, denovo_fields) ==
    IF keep_LLs
    THEN gt_fields \o denovo_fields
    ELSE SelectSeq(gt_fields \o denovo_fields, LAMBDA x : x \notin Excluded)

\* l.76-84: the registry each name's type and number are looked up in
LookupFails(fmt, gt_fields) ==
    IF fmt \in Range(gt_fields)
    THEN fmt \notin DOMAIN gt_formats
    ELSE fmt \notin DOMAIN ll_formats

LlSampleNone(g, l, sample) == None

\* l.96
LlSample(g, l, sample) ==
    IF sample.sample \in all_ll_samples THEN <<Genotype(l, sample.sample)>> ELSE None

\* l.98-104
Sampdat(g, l, fields, sample) ==
    LET ll_sample == LlSample(g, l, sample)
        in_gt == [i \in 1..Len(fields) |-> fields[i] \in Range(g.FORMAT)]
    IN  [i \in 1..Len(fields) |->
            IF in_gt[i]
            THEN CallGet(sample, fields[i])
            ELSE IF ll_sample = None THEN Missing
                 ELSE CallGet(ll_sample[1], fields[i])]

\* l.90-110
Combined(g, l, fields) ==
    [g EXCEPT
        !.FORMAT = fields,
        !.samples = [j \in 1..Len(g.samples) |->
                       [sample |-> g.samples[j].sample,
                        fields |-> fields,
                        data   |-> Sampdat(g, l, fields, g.samples[j])]]]

WriteRecordTwice(o, rec) == Append(Append(o, rec), rec)

\* l.113: vcf_writer.write_record(gt_record)
WriteRecord(o, rec) == Append(o, rec)

BufferAfterWriteKept == ll_record

\* l.116: ll_record = None
BufferAfterWrite == None

\* l.69-116
MergeAndWrite ==
    /\ pc = "merge"
    /\ LET g == gt_record[1]
           l == ll_record[1]
           fields == MergedFields(g.FORMAT, l.FORMAT)
       IN  IF HasDuplicates(fields)
           THEN /\ Crash("ValueError")
                /\ UNCHANGED <<out, ll_record>>
           ELSE IF \E i \in 1..Len(fields) : LookupFails(fields[i], g.FORMAT)
           THEN /\ Crash("KeyError")
                /\ UNCHANGED <<out, ll_record>>
           ELSE /\ out' = WriteRecord(out, Combined(g, l, fields))
                /\ ll_record' = BufferAfterWrite
                /\ pc' = "for"
                /\ err' = err
    /\ UNCHANGED <<inputs, gt_formats, fmt_todo, header, gt_idx, ll_idx, gt_record>>

Next ==
    \/ CheckSamples
    \/ UnifyFormat
    \/ OpenWriter
    \/ NextGtRecord
    \/ PullLlRecord
    \/ PositionGate
    \/ VerifyMatch
    \/ CheckDuplicateFields
    \/ MergeAndWrite

Spec == Init /\ [][Next]_vars

----------------------------------------------------------------------------
(* records_match on its own: every pair of variant keys *)

InitMatch ==
    /\ \E a \in KeyPool, b \in KeyPool :
        /\ gt_record = <<MkRecord("gt", a, <<"GT">>, <<"s1">>)>>
        /\ ll_record = <<MkRecord("ll", b, <<"DNM_LL">>, <<"s1">>)>>
    /\ gt_stream = <<>>
    /\ ll_stream = <<>>
    /\ gt_samples = <<"s1">>
    /\ ll_samples = <<"s1">>
    /\ gt_header_formats = Registry("gt", {"GT"})
    /\ ll_formats = Registry("ll", {"DNM_LL"})
    /\ keep_LLs = FALSE
    /\ gt_formats = gt_header_formats
    /\ fmt_todo = {}
    /\ header = None
    /\ gt_idx = 0
    /\ ll_idx = 0
    /\ out = <<>>
    /\ pc = "call"
    /\ err = ""

CallRecordsMatch ==
    /\ pc = "call"
    /\ LET m == records_match(gt_record[1], ll_record[1])
       IN  IF m = "ok" THEN pc' = "returned" /\ err' = err ELSE Exit(m)
    /\ UNCHANGED <<inputs, gt_formats, fmt_todo, header, gt_idx, ll_idx,
                   gt_record, ll_record, out>>

NextMatch == CallRecordsMatch

SpecMatch == InitMatch /\ [][NextMatch]_vars

\* main() runs to its end: a step that can be taken is taken
FairSpec == Spec /\ WF_vars(Next)

----------------------------------------------------------------------------
(* The registration loop of l.42-45 on its own, run twice on the same two *)
(* readers                                                                 *)

InitUnify ==
    /\ \E gh \in SUBSET GtFieldNames, lh \in SUBSET LlFieldNames :
        /\ gt_header_formats = Registry("gt", gh)
        /\ ll_formats = Registry("ll", lh)
    /\ gt_stream = <<>>
    /\ ll_stream = <<>>
    /\ gt_samples = <<"s1">>
    /\ ll_samples = <<"s1">>
    /\ keep_LLs = FALSE
    /\ gt_formats = gt_header_formats
    /\ fmt_todo = DOMAIN ll_formats
    /\ header = None
    /\ gt_idx = 0
    /\ ll_idx = 0
    /\ gt_record = None
    /\ ll_record = None
    /\ out = <<>>
    /\ pc = "formats"
    /\ err = ""

\* the loop has ended; it is entered again
UnifyAgain ==
    /\ pc = "formats"
    /\ fmt_todo = {}
    /\ fmt_todo' = DOMAIN ll_formats
    /\ pc' = "formats2"
    /\ UNCHANGED <<inputs, gt_formats, header, gt_idx, ll_idx, gt_record,
                   ll_record, out, err>>

\* one iteration of the second run
SecondUnifyFormat == UnifyFormatAt("formats2")

\* the second run has ended
SecondUnifyDone ==
    /\ pc = "formats2"
    /\ fmt_todo = {}
    /\ pc' = "unified2"
    /\ UNCHANGED <<inputs, gt_formats, fmt_todo, header, gt_idx, ll_idx,
                   gt_record, ll_record, out, err>>

NextUnify ==
    \/ UnifyFormat
    \/ UnifyAgain
    \/ SecondUnifyFormat
    \/ SecondUnifyDone

SpecUnify == InitUnify /\ [][NextUnify]_vars

----------------------------------------------------------------------------
(* Properties *)

KeyEqual(a, b) ==
    /\ a.CHROM = b.CHROM
    /\ a.POS = b.POS
    /\ a.ID = b.ID
    /\ a.REF = b.REF
    /\ a.ALT = b.ALT

KeyOf(r) == Key(r.CHROM, r.POS, r.ID, r.REF, r.ALT)

g_rec == gt_record[1]
l_rec == ll_record[1]

\* the primary record is held back by the gate of l.56
HeldBack == g_rec.CHROM # l_rec.CHROM \/ g_rec.POS < l_rec.POS

\* C1: a primary record on another chromosome than the buffered secondary
\* record, or at a smaller position, is skipped: the step writes nothing, reads
\* nothing from the secondary stream and keeps the buffered record, and the
\* buffered record is still the same when the next primary record reaches the
\* gate.
C1_SkipKeepsBuffer ==
    [][ /\ (pc = "gate" /\ HeldBack) =>
              /\ pc' = "for"
              /\ out' = out
              /\ ll_idx' = ll_idx
              /\ ll_record' = ll_record
        /\ (pc \in {"for", "pull"} /\ ll_record # None) =>
              /\ ll_record' = ll_record
              /\ ll_idx' = ll_idx
              /\ out' = out ]_vars

\* a primary record has just been skipped with the secondary record kept
C1_Witness ==
    /\ pc = "for"
    /\ gt_record # None
    /\ ll_record # None
    /\ HeldBack
    /\ gt_idx < Len(gt_stream)

C3_MatchIffKeysEqual ==
    /\ pc = "returned" => KeyEqual(g_rec, l_rec)
    /\ pc = "exit" => (~KeyEqual(g_rec, l_rec) /\ err \in MismatchMsgs)
    /\ pc \in {"call", "returned", "exit"}

\* a pair with the same alternate alleles in another order has been refused
C3_Witness ==
    /\ pc = "exit"
    /\ err = MsgAlt
    /\ Len(g_rec.ALT) = Len(l_rec.ALT)
    /\ Range(g_rec.ALT) = Range(l_rec.ALT)
    /\ g_rec.ALT # l_rec.ALT

\* C4: once the loop runs, with the secondary stream exhausted and no record
\* buffered, the run raises no error: the remaining primary records are
\* skipped and the run completes.
C4_ExhaustedSecondarySkips ==
    (header # None /\ ll_record = None /\ ll_idx = Len(ll_stream)) =>
        (pc \notin {"exit", "crash"} /\ err = "")

\* C5 as stated: when the primary stream has moved past the buffered secondary
\* record (same chromosome, greater position) no error is raised and the run
\* goes on.
C5_MovedPastIsSilent ==
    [][ (pc = "match" /\ g_rec.CHROM = l_rec.CHROM /\ g_rec.POS > l_rec.POS) =>
            (pc' \notin {"exit", "crash"} /\ err' = "") ]_vars

\* C5, amended: a buffered secondary record is never dropped.  When the primary
\* stream moves past it on the same chromosome to a greater position, the
\* record passes the gate and the run ends with the positions-don't-match
\* error, nothing written and the secondary record still buffered; the buffer
\* is emptied only by writing the record paired with it.
C5_MovedPastAborts ==
    [][ /\ (pc = "gate" /\ g_rec.CHROM = l_rec.CHROM /\ g_rec.POS > l_rec.POS) =>
              pc' = "match"
        /\ (pc = "match" /\ g_rec.CHROM = l_rec.CHROM /\ g_rec.POS > l_rec.POS) =>
              /\ pc' = "exit"
              /\ err' = MsgPos
              /\ out' = out
              /\ ll_record' = ll_record
        /\ (ll_record # None /\ ll_record' # ll_record) =>
              /\ ll_record' = None
              /\ Len(out') = Len(out) + 1
              /\ g_rec.POS = l_rec.POS
              /\ g_rec.CHROM = l_rec.CHROM ]_vars

\* the run has ended because the primary stream moved past the buffered record
C5_Witness ==
    /\ pc = "exit"
    /\ err = MsgPos
    /\ g_rec.CHROM = l_rec.CHROM
    /\ g_rec.POS > l_rec.POS

RECURSIVE IsSubseq(_, _)
\* s is an order-preserving subsequence of t
IsSubseq(s, t) ==
    IF Len(s) = 0 THEN TRUE
    ELSE IF Len(t) = 0 THEN FALSE
    ELSE IF s[1] = t[1] THEN IsSubseq(Tail(s), Tail(t))
    ELSE IsSubseq(s, Tail(t))

KeysOf(s) == [n \in 1..Len(s) |-> KeyOf(s[n])]

OutputIsSubsequence ==
    IsSubseq(KeysOf(out), KeysOf(SubSeq(gt_stream, 1, gt_idx)))

\* only the write of l.113 changes the output, by one record with the key of
\* the current primary record
WritesOnlyCurrent ==
    out' # out =>
        /\ pc = "merge"
        /\ Len(out') = Len(out) + 1
        /\ SubSeq(out', 1, Len(out)) = out
        /\ KeyOf(out'[Len(out')]) = KeyOf(g_rec)

SharedFormats == DOMAIN ll_formats \cap DOMAIN gt_header_formats

NothingReadOrWritten ==
    /\ gt_idx = 0
    /\ ll_idx = 0
    /\ header = None
    /\ out = <<>>

AllLlFormatsInHeader ==
    \A k \in DOMAIN ll_formats :
        k \in DOMAIN header[1] /\ header[1][k] = ll_formats[k]

\* C7 as stated: with a FORMAT name in both headers the run ends with the
\* field-collision error and nothing read or written; with none, the header
\* is written with every secondary field registered.
C7_CollisionAlwaysReported ==
    /\ SharedFormats # {} =>
          /\ NothingReadOrWritten
          /\ pc \in {"samples", "formats", "exit"}
          /\ pc = "formats" => fmt_todo \cap SharedFormats # {}
          /\ pc = "exit" => err = MsgCollision
    /\ SharedFormats = {} =>
          /\ err # MsgCollision
          /\ header # None => AllLlFormatsInHeader

\* C7, amended: with a FORMAT name in both headers, and at least one sample in
\* both files, the run ends with the field-collision error and nothing read or
\* written (with no common sample it ends earlier, with the no-shared-samples
\* error, also with nothing read or written); with no common name the header is
\* written with every secondary field registered.
C7_CollisionReportedAfterSamples ==
    /\ SharedFormats # {} =>
          /\ NothingReadOrWritten
          /\ pc \in {"samples", "formats", "exit"}
          /\ pc = "formats" => fmt_todo \cap SharedFormats # {}
          /\ pc = "exit" =>
                err = (IF Range(gt_samples) \cap Range(ll_samples) = {}
                       THEN MsgNoSamples ELSE MsgCollision)
    /\ SharedFormats = {} =>
          /\ err # MsgCollision
          /\ header # None => AllLlFormatsInHeader

\* the run has ended with the field-collision error
C7_Witness ==
    /\ pc = "exit"
    /\ err = MsgCollision
    /\ SharedFormats # {}
    /\ NothingReadOrWritten

\* C8: with no sample in both files the run ends with the no-shared-samples
\* error before any FORMAT field is registered and with nothing read or
\* written; with a common sample that error is never raised.
C8_NoSharedSamplesAborts ==
    /\ Range(gt_samples) \cap Range(ll_samples) = {} =>
          /\ pc \in {"samples", "exit"}
          /\ pc = "exit" => err = MsgNoSamples
          /\ gt_formats = gt_header_formats
          /\ fmt_todo = DOMAIN ll_formats
          /\ NothingReadOrWritten
    /\ Range(gt_samples) \cap Range(ll_samples) # {} => err # MsgNoSamples

\* the run has ended with the no-shared-samples error
C8_Witness ==
    /\ pc = "exit"
    /\ err = MsgNoSamples
    /\ Range(gt_samples) \cap Range(ll_samples) = {}

\* C9: a written record has one call per sample of the primary record, in its
\* order; in each call the value of a field of the primary record is the
\* primary sample's value, and the value of any other field is the value of the
\* same sample in the secondary record if the secondary file has that sample,
\* else the missing marker ".".
C9_SampleValues ==
    [][ out' # out =>
          LET r == out'[Len(out')]
          IN  /\ Len(r.samples) = Len(g_rec.samples)
              /\ \A j \in 1..Len(r.samples) :
                    LET s == g_rec.samples[j].sample
                        c == r.samples[j]
                    IN  /\ c.sample = s
                        /\ c.fields = r.FORMAT
                        /\ Len(c.data) = Len(r.FORMAT)
                        /\ \A i \in 1..Len(r.FORMAT) :
                              LET f == r.FORMAT[i]
                              IN  IF f \in Range(g_rec.FORMAT)
                                  THEN c.data[i] = Value("gt", g_rec, s, f)
                                  ELSE IF s \in Range(ll_samples)
                                  THEN c.data[i] = Value("ll", l_rec, s, f)
                                  ELSE c.data[i] = Missing ]_vars

\* a written record holds, for one sample, a secondary value and, for another
\* sample, the missing marker
C9_Witness ==
    /\ Len(out) >= 1
    /\ \E j, k \in 1..Len(out[1].samples), i \in 1..Len(out[1].FORMAT) :
          /\ out[1].samples[j].data[i] = Missing
          /\ out[1].samples[k].data[i][1] = "ll"
          /\ \E n \in 1..Len(out[1].FORMAT) : out[1].samples[j].data[n][1] = "gt"

\* C10: without --keep-gls no written record lists GL, PL or PHASEDGL; with it,
\* each of them that the primary or the secondary record lists is listed in the
\* written record.
C10_ExclusionPolicy ==
    [][ out' # out =>
          LET r == out'[Len(out')]
          IN  /\ ~keep_LLs => Range(r.FORMAT) \cap {"GL", "PL", "PHASEDGL"} = {}
              /\ keep_LLs =>
                    (Range(g_rec.FORMAT) \cup Range(l_rec.FORMAT))
                        \cap {"GL", "PL", "PHASEDGL"} \subseteq Range(r.FORMAT)
      ]_vars

\* a record was written without an excluded name both input records list
C10_Witness ==
    /\ ~keep_LLs
    /\ Len(out) >= 1
    /\ "GL" \in Range(gt_stream[1].FORMAT)
    /\ "PHASEDGL" \in Range(ll_stream[1].FORMAT)
    /\ Range(out[1].FORMAT) \cap Excluded = {}
    /\ Range(out[1].FORMAT) # {}

DefinedErrors == {MsgNoSamples, MsgCollision, MsgDuplicate} \cup MismatchMsgs

\* C11: once one of the defined errors has been raised nothing more happens:
\* no record is read, none is written; and the step that raises it reads and
\* writes nothing, so the output is what was written for earlier records.
C11_ErrorsAreFatal ==
    [][ /\ err \notin DefinedErrors
        /\ err' \in DefinedErrors =>
              /\ pc' = "exit"
              /\ out' = out
              /\ gt_idx' = gt_idx
              /\ ll_idx' = ll_idx ]_vars

\* a defined error ended the run after a record had been written
C11_Witness ==
    /\ pc = "exit"
    /\ err \in DefinedErrors
    /\ Len(out) = 1
    /\ gt_idx = 2

\* C12: a paired record whose primary and secondary field names, put together,
\* hold a name more than once ends the run with the duplicate-field error and
\* is not written.
C12_DuplicateFieldAborts ==
    [][ (pc = "dup" /\ HasDuplicates(g_rec.FORMAT \o l_rec.FORMAT)) =>
            (pc' = "exit" /\ err' = MsgDuplicate /\ out' = out) ]_vars

\* every run stops
Terminates == <>(~ENABLED Next)

\* C13: a run that has stopped has either completed, with the primary stream
\* read to its end, or raised one of the defined errors.
C13_StopsDoneOrDefinedError ==
    ~ENABLED Next =>
        \/ (pc = "done" /\ gt_idx = Len(gt_stream) /\ err = "")
        \/ (pc = "exit" /\ err \in DefinedErrors)

\* C14: the secondary stream is read forward, one record at a time and only
\* into an empty buffer; the buffered record is the last one read; a write
\* empties the buffer, so every written record is paired with a secondary
\* record of its own.
C14_SecondaryReadForward ==
    /\ [](ll_record # None => (ll_idx >= 1 /\ ll_record[1] = ll_stream[ll_idx]))
    /\ [](Len(out) <= ll_idx)
    /\ [][ /\ ll_idx' >= ll_idx
           /\ ll_idx' # ll_idx =>
                 /\ ll_record = None
                 /\ ll_idx' = ll_idx + 1
                 /\ ll_record' = <<ll_stream[ll_idx + 1]>>
           /\ out' # out =>
                 /\ ll_record # None
                 /\ ll_record' = None
                 /\ Len(out') = Len(out) + 1 ]_vars

\* two records were written, from two secondary records, and the buffer is
\* empty
C14_Witness ==
    /\ Len(out) = 2
    /\ ll_idx = 2
    /\ ll_record = None

\* the names of a field list that the exclusion policy keeps
Kept(fields) ==
    IF keep_LLs THEN fields
    ELSE SelectSeq(fields, LAMBDA x : x \notin {"GL", "PL", "PHASEDGL"})

\* C15: the field list of a written record is the primary record's names in
\* their order, then the secondary record's names in their order, without the
\* excluded names unless --keep-gls; every call lists its values in that
\* order.
C15_FieldOrder ==
    [][ out' # out =>
          LET r == out'[Len(out')]
          IN  /\ r.FORMAT = Kept(g_rec.FORMAT) \o Kept(l_rec.FORMAT)
              /\ \A j \in 1..Len(r.samples) :
                    /\ r.samples[j].fields = r.FORMAT
                    /\ Len(r.samples[j].data) = Len(r.FORMAT)
                    /\ \A i \in 1..Len(r.FORMAT) :
                          LET v == r.samples[j].data[i]
                          IN  v # Missing => v[4] = r.FORMAT[i] ]_vars

\* a record was written with two primary names followed by two secondary names
C15_Witness ==
    /\ Len(out) >= 1
    /\ Len(out[1].FORMAT) = 4
    /\ SubSeq(out[1].FORMAT, 1, 2) = gt_stream[1].FORMAT
    /\ SubSeq(out[1].FORMAT, 3, 4) = ll_stream[1].FORMAT
    /\ gt_stream[1].FORMAT # ll_stream[1].FORMAT

Unified == [k \in DOMAIN ll_formats \cup DOMAIN gt_header_formats |->
              IF k \in DOMAIN ll_formats THEN ll_formats[k] ELSE gt_header_formats[k]]

SecondRunStarted ==
    SharedFormats = {} /\ pc \in {"formats2", "unified2", "exit"}

\* C16 as stated: a second run of the registration loop does not fail and
\* leaves the unified registry as the first run made it.
C16_SecondRunSucceeds ==
    SecondRunStarted => (pc # "exit" /\ err = "" /\ gt_formats = Unified)

\* C16, amended: the first run registers the secondary fields in the primary
\* registry itself, so a second run on the same two registries finds every
\* secondary field already present: it leaves the unified registry unchanged,
\* and it ends without the field-collision error only if the secondary schema
\* has no field.
C16_SecondRunCollides ==
    SecondRunStarted =>
        /\ gt_formats = Unified
        /\ pc = "exit" => err = MsgCollision
        /\ pc = "unified2" => (DOMAIN ll_formats = {} /\ err = "")
        /\ pc = "formats2" => (fmt_todo = DOMAIN ll_formats /\ err = "")

\* the second run has ended with the field-collision error
C16_Witness ==
    /\ pc = "exit"
    /\ err = MsgCollision
    /\ SharedFormats = {}
    /\ gt_formats = Unified

\* C17: the records read from the secondary stream are those paired with the
\* written records, in order, plus the buffered one if there is one.
C17_PulledIsEmittedPlusBuffered ==
    /\ ll_idx = Len(out) + (IF ll_record # None THEN 1 ELSE 0)
    /\ \A i \in 1..Len(out) : KeyEqual(out[i], ll_stream[i])

\* one record was written and the second secondary record is buffered
C17_Witness ==
    /\ Len(out) = 1
    /\ ll_idx = 2
    /\ ll_record # None
    /\ pc = "gate"

\* the buffered secondary record is on a chromosome none of the primary
\* records still to be handled is on
Stranded ==
    /\ ll_record # None
    /\ pc \in {"for", "pull", "gate", "done"}
    /\ pc \in {"pull", "gate"} => g_rec.CHROM # l_rec.CHROM
    /\ \A n \in (gt_idx + 1)..Len(gt_stream) : gt_stream[n].CHROM # l_rec.CHROM

\* C18: once the buffered secondary record is on a chromosome that no
\* remaining primary record is on, it stays so: nothing more is written or
\* read from the secondary stream, no error is raised, and the run goes on
\* until the primary stream is exhausted and it completes.
C18_StrandedBufferSkipsAll ==
    /\ Stranded ~> (pc = "done" /\ err = "")
    /\ [](Stranded => (pc = "done" \/ ENABLED Next))
    /\ [][ Stranded =>
             /\ Stranded'
             /\ out' = out
             /\ ll_idx' = ll_idx
             /\ ll_record' = ll_record
             /\ err' = ""
             /\ gt_idx' >= gt_idx ]_vars

\* the run completed with a primary record skipped whose key is that of the
\* next, unread, secondary record
C18_Witness ==
    /\ pc = "done"
    /\ Stranded
    /\ ll_idx < Len(ll_stream)
    /\ gt_idx >= 1
    /\ KeyEqual(gt_stream[gt_idx], ll_stream[ll_idx + 1])
    /\ out = <<>>

====
